---- MODULE Spec2Model ----
(***************************************************************************)
(* DocumentMind: the document processing pipeline.                         *)
(*                                                                         *)
(* The model follows documents/views.py (DocumentViewSet.create and        *)
(* retry_summary), summarization/async_tasks.py (the Celery task           *)
(* generate_document_summary_async), documents/models.py (the Summary      *)
(* table and its unique constraint), documents/extraction.py and           *)
(* summarization/services.py.                                              *)
(*                                                                         *)
(* Every database statement (an INSERT by objects.create, a SELECT by      *)
(* .first(), an UPDATE by .save()) is one atomic step; the Python between  *)
(* two statements is local to its request or worker and is folded into the *)
(* statement that follows it.  A model instance read by .first() is a      *)
(* private copy of the row: .save() writes every field of that copy back.  *)
(*                                                                         *)
(* A text is represented by its length in characters, which is all that    *)
(* create() and the empty-input test of summarize() look at.               *)
(***************************************************************************)
EXTENDS Integers, FiniteSets, Sequences, Bags, TLC

(* ------------------------------ bounds --------------------------------- *)

\* Documents that create() calls may save
MaxUploads == 1

\* retry_summary() calls that pass the status test
MaxRetries == 2

\* Celery worker processes: the tasks that can run at the same time
NumWorkers == 2

\* deliveries of a message that leave the message in the broker
MaxRedeliveries == 1

\* characters of a text given to extract_text or summarize on its own
MaxTextLen == 4

\* largest value of settings.MAX_EXTRACT_CHAR when extract_text is called
\* on its own
MaxLimit == 3

\* largest max_length passed to the SimpleFallback
MaxLength == 3

\* threads of one process that call service.summarize, and calls per thread
NumCallers == 2
MaxCalls == 2

(* ------------------------- program constants --------------------------- *)

MAX_DOCUMENT_SIZE_MB == 25

MAX_EXTRACT_CHAR == 60000

AUTO_SUMMARY_MAX_CHAR == 40000

BytesPerMB == 1048576

SUMMARY_SHORT_MAX_LEN == 60

SUMMARY_DETAILED_MAX_LEN == 180

(* ------------------------------ domains -------------------------------- *)

DocIds == 1..MaxUploads

\* lengths of extracted texts: empty, at the threshold, above the threshold
TextLens == {0, AUTO_SUMMARY_MAX_CHAR, AUTO_SUMMARY_MAX_CHAR + 1}

STATUS_CHOICES == {"pending", "processing", "complete", "failed"}

\* what the summarization pipeline returns for a non-empty text
ModelShortText == "short summary"

\* the bulleted rendering of what the pipeline returns for the detailed notes
ModelBullets == "- first point\n- second point"

\* f'Generation failed: {e}'
FailureNotes == "Generation failed: error"

\* the uploaded files: filename suffix, size in bytes, whether the reader
\* can parse the content, and the length of the text the reader yields
\* after trimming
UploadedFiles ==
    [ suffix : {".pdf", ".docx", ".txt", ".exe"},
      size : {MAX_DOCUMENT_SIZE_MB * BytesPerMB, MAX_DOCUMENT_SIZE_MB * BytesPerMB + 1},
      parses : BOOLEAN,
      text_len : TextLens ]

\* None: doc.summaries.first() found no row
Callers == 1..NumCallers

\* filenames of uploaded files: an optional stem, an extension in every
\* letter case or something that is no supported extension, and an optional
\* character after it
Extensions ==
    {<<".", p, d, f>> : p \in {"p", "P"}, d \in {"d", "D"}, f \in {"f", "F"}}
    \cup {<<".", d, o, c, x>> : d \in {"d", "D"}, o \in {"o", "O"}, c \in {"c", "C"},
                                x \in {"x", "X"}}
    \cup {<<".", t, x, u>> : t \in {"t", "T"}, x \in {"x", "X"}, u \in {"t", "T"}}
    \cup {<<".", "e", "x", "e">>, <<"p", "d", "f">>, <<".", "d", "o", "c">>,
          <<".", "t", "x">>, <<>>}

Filenames ==
    {stem \o extension \o rest : stem \in {<<>>, <<"a">>}, extension \in Extensions,
                                  rest \in {<<>>, <<"x">>}}

\* sizes in bytes around the limit of MAX_DOCUMENT_SIZE_MB megabytes
FileSizes ==
    {0, MAX_DOCUMENT_SIZE_MB * BytesPerMB - 1, MAX_DOCUMENT_SIZE_MB * BytesPerMB,
     MAX_DOCUMENT_SIZE_MB * BytesPerMB + 1, 2 * MAX_DOCUMENT_SIZE_MB * BytesPerMB}

\* the files handed to extract_text: name, size, whether the PDF or DOCX
\* reader can parse the content, and the text a reader gets out of it
FileObjects ==
    [ name : Filenames, size : FileSizes, parses : BOOLEAN,
      text : {<<>>, <<"a">>, <<" ", "a", ".", " ">>} ]

NoSummary == [id |-> 0, document |-> 0, short_summary |-> "",
              detailed_notes |-> "", status |-> "none"]

(* ------------------------------- state --------------------------------- *)

VARIABLES
    documents,      \* the Document table: rows [id, text_len]
    summaries,      \* the Summary table: rows [id, document, short_summary, detailed_notes, status]
    integrity_errors, \* IntegrityErrors raised by the Summary table so far
    queue,          \* the broker: queue[d] = messages for document d not yet consumed
    redeliveries,   \* deliveries so far that left their message in the broker
    returned,       \* the last value returned: the HTTP status of a view's Response, or
                    \* the result string of the task: [by, pk, value]
    uploadPc,       \* uploadPc[d]: position of the create() call that saved Document d
    retries,        \* the retry_summary() calls past the status test: a bag of [pc, pk, summary]
    retry_calls,    \* retry_summary() calls that have passed the status test so far
    tasks,          \* the running generate_document_summary_async tasks: a bag of
                    \* [pc, document_id, summary]
    fnCall,         \* a function of the pipeline called on its own: its name and arguments
    fnResult,       \* what that call returned
    pipeline_cache, \* the lru_cache of _get_pipeline in one process: NoHandle or a handle
    constructions,  \* the times the body of _get_pipeline has run in that process
    callers         \* callers[t]: the thread t of that process in service._get_pipeline():
                    \* [pc, handle, calls]

vars == <<documents, summaries, integrity_errors, queue, redeliveries, returned,
          uploadPc, retries, retry_calls, tasks, fnCall, fnResult,
          pipeline_cache, constructions, callers>>

\* the state of the requests, the broker and the workers
pipelineVars == <<documents, summaries, integrity_errors, queue, redeliveries, returned,
                  uploadPc, retries, retry_calls, tasks>>

fnVars == <<fnCall, fnResult>>

cacheVars == <<pipeline_cache, constructions, callers>>

dbVars == <<documents, summaries, integrity_errors>>

retryVars == <<retries, retry_calls>>

\* Response(..., status=code) of a view called for document pk
Response(view, pk, code) == [by |-> view, pk |-> pk, value |-> code]

\* the string the task returns for document_id
TaskResult(document_id, result) ==
    [by |-> "generate_document_summary_async", pk |-> document_id, value |-> result]

\* one call or task moves on: its record in the bag is replaced
Replace(bag, old, new) == (bag (-) SetToBag({old})) (+) SetToBag({new})

\* one call or task returns: its record leaves the bag
Remove(bag, old) == bag (-) SetToBag({old})

(* ---------------------------- the database ----------------------------- *)

DocumentExists(d) == \E doc \in documents : doc.id = d

DocumentOf(d) == CHOOSE doc \in documents : doc.id = d

\* doc.summaries: the rows of the Summary table that reference document d
SummariesOf(tbl, d) == {s \in tbl : s.document = d}

\* doc.summaries.first(): a copy of the row, or NoSummary for None
FirstSummary(tbl, d) ==
    IF SummariesOf(tbl, d) = {} THEN NoSummary
    ELSE CHOOSE s \in SummariesOf(tbl, d) : \A t \in SummariesOf(tbl, d) : s.id >= t.id

\* the constraint one_summary_per_document: a row for this document exists
UniqueViolation(tbl, d) == SummariesOf(tbl, d) /= {}

\* Summary.objects.create(document=d, ...): INSERT under the unique constraint
SummaryCreate(tbl, d, short, detailed, st) ==
    IF UniqueViolation(tbl, d)
    THEN [rows |-> tbl, error |-> TRUE]
    ELSE [rows |-> tbl \cup {[id |-> Cardinality(tbl) + 1, document |-> d,
                              short_summary |-> short, detailed_notes |-> detailed,
                              status |-> st]},
          error |-> FALSE]

\* a save() that inserts instead of updating the row it was read from
SummarySaveInserts(tbl, inst) ==
    SummaryCreate(tbl, inst.document, inst.short_summary, inst.detailed_notes, inst.status)

\* a save(update_fields=['status']): only the status column is written
SummarySaveStatusOnly(tbl, inst) ==
    [rows |-> {IF s.id = inst.id THEN [s EXCEPT !.status = inst.status] ELSE s : s \in tbl},
     error |-> FALSE]

\* summary.save() on an instance read from the table: UPDATE of every field
\* of the row with the instance's primary key
SummarySave(tbl, inst) ==
    [rows |-> {IF s.id = inst.id THEN inst ELSE s : s \in tbl}, error |-> FALSE]

ErrorCount(result) == IF result.error THEN 1 ELSE 0

(* ---------------------------- extraction ------------------------------- *)

\* extract_text: the size check, the dispatch on the suffix, the reader,
\* then the cut at MAX_EXTRACT_CHAR
extract_text(f) ==
    IF f.size > MAX_DOCUMENT_SIZE_MB * BytesPerMB
    THEN [raised |-> "ExtractionError", text_len |-> 0]
    ELSE IF f.suffix \in {".pdf", ".docx"} /\ ~f.parses
    THEN [raised |-> "Exception", text_len |-> 0]
    ELSE IF f.suffix \in {".pdf", ".docx", ".txt"}
    THEN [raised |-> "none",
          text_len |-> IF f.text_len > MAX_EXTRACT_CHAR THEN MAX_EXTRACT_CHAR ELSE f.text_len]
    ELSE [raised |-> "ExtractionError", text_len |-> 0]

(* --------------------------- summarization ----------------------------- *)

\* SummarizationService.summarize on a text of the given length
summarize(text_len, mode) ==
    IF text_len = 0
    THEN [short_summary |-> "", detailed_notes |-> ""]
    ELSE [short_summary |-> IF mode \in {"short", "both"} THEN ModelShortText ELSE "",
          detailed_notes |-> IF mode \in {"detailed", "both"} THEN ModelBullets ELSE ""]

\* a generate_document_summaries that asks for the short summary only
generate_short_summary_only(text_len) ==
    LET result == summarize(text_len, "short")
    IN  <<result.short_summary, result.detailed_notes>>

\* generate_document_summaries: summarize with mode 'both'
generate_document_summaries(text_len) ==
    LET result == summarize(text_len, "both")
    IN  <<result.short_summary, result.detailed_notes>>

\* the pipeline is called, and so can raise, only for a non-empty text
PipelineCalled(text_len) == text_len > 0

(* ------------------------ functions on texts --------------------------- *)

\* a text is a sequence of characters; these are the characters of the
\* texts that the functions are called on
Chars == {" ", "\n", ".", "a"}

\* the characters that str.strip() removes
Whitespace == {" ", "\n"}

Texts == UNION {[1..n -> Chars] : n \in 0..MaxTextLen}

\* text[:n]
Slice(text, n) == SubSeq(text, 1, IF n < Len(text) THEN n ELSE Len(text))

RECURSIVE lstrip(_)
lstrip(text) ==
    IF text /= <<>> /\ Head(text) \in Whitespace THEN lstrip(Tail(text)) ELSE text

RECURSIVE rstrip(_)
rstrip(text) ==
    IF text /= <<>> /\ text[Len(text)] \in Whitespace
    THEN rstrip(SubSeq(text, 1, Len(text) - 1))
    ELSE text

\* text.strip()
strip(text) == rstrip(lstrip(text))

\* text.split('.'): the segments between the dots, the empty ones included
RECURSIVE split(_)
split(text) ==
    IF \A i \in 1..Len(text) : text[i] /= "."
    THEN <<text>>
    ELSE LET dot == CHOOSE i \in 1..Len(text) :
                        text[i] = "." /\ \A j \in 1..(i - 1) : text[j] /= "."
         IN  <<SubSeq(text, 1, dot - 1)>> \o split(SubSeq(text, dot + 1, Len(text)))

\* sep.join(segments)
RECURSIVE join(_, _)
join(sep, segments) ==
    IF segments = <<>> THEN <<>>
    ELSE IF Len(segments) = 1 THEN segments[1]
    ELSE segments[1] \o sep \o join(sep, Tail(segments))

\* the end of extract_text: the text the reader returned is stripped, and
\* cut to its first max_chars characters when it is longer
extract_text_cleanup(text, max_chars) ==
    LET stripped == strip(text)
    IN  IF Len(stripped) > max_chars THEN Slice(stripped, max_chars) ELSE stripped

\* str.lower() on the letters of the filenames
LowerCase ==
    [c \in {"P", "D", "F", "O", "C", "X", "T"} |->
        CASE c = "P" -> "p" [] c = "D" -> "d" [] c = "F" -> "f" [] c = "O" -> "o"
          [] c = "C" -> "c" [] c = "X" -> "x" [] c = "T" -> "t"]

\* a dispatch that compares the filename as it was given
name_as_given(name) == name

\* file_obj.name.lower()
lower(name) ==
    [i \in 1..Len(name) |-> IF name[i] \in DOMAIN LowerCase THEN LowerCase[name[i]]
                            ELSE name[i]]

\* filename.endswith(suffix)
endswith(name, suffix) ==
    /\ Len(name) >= Len(suffix)
    /\ SubSeq(name, Len(name) - Len(suffix) + 1, Len(name)) = suffix

\* a size test that also rejects a file exactly at the limit
size_at_or_over_limit(size) == size >= MAX_DOCUMENT_SIZE_MB * BytesPerMB

\* file_size_mb > settings.MAX_DOCUMENT_SIZE_MB, with file_size_mb =
\* file_obj.size / (1024 * 1024): the division by a power of two is exact
size_over_limit(size) == size > MAX_DOCUMENT_SIZE_MB * BytesPerMB

\* extract_text(file_obj) on a file with a name, a size and a content: the
\* exception it raises and its message, the reader it called, and the text
\* it returns
extract_text_file(file_obj) ==
    LET filename == lower(file_obj.name)
        reader == IF endswith(filename, <<".", "p", "d", "f">>) THEN "_read_pdf"
                  ELSE IF endswith(filename, <<".", "d", "o", "c", "x">>) THEN "_read_docx"
                  ELSE IF endswith(filename, <<".", "t", "x", "t">>) THEN "_read_txt"
                  ELSE "none"
    IN  IF size_over_limit(file_obj.size)
        THEN [raised |-> "ExtractionError", message |-> "File too large",
              reader |-> "none", text |-> <<>>]
        ELSE IF reader = "none"
        THEN [raised |-> "ExtractionError", message |-> "Unsupported file type",
              reader |-> "none", text |-> <<>>]
        ELSE IF reader \in {"_read_pdf", "_read_docx"} /\ ~file_obj.parses
        THEN [raised |-> "Exception", message |-> "", reader |-> reader, text |-> <<>>]
        ELSE [raised |-> "none", message |-> "", reader |-> reader,
              text |-> extract_text_cleanup(file_obj.text, MAX_EXTRACT_CHAR)]

\* a fallback that joins the first two segments and does not cut the result
SimpleFallbackUncut(text, max_length) ==
    LET sentences == Slice(split(strip(text)), 2)
    IN  join(<<".", " ">>, sentences)

\* SimpleFallback.__call__: the first two segments of the stripped text,
\* joined by '. ' and cut to max_length characters
SimpleFallback(text, max_length) ==
    LET sentences == Slice(split(strip(text)), 2)
    IN  Slice(join(<<".", " ">>, sentences), max_length)

\* what _get_pipeline() returns: the transformers pipeline, or the
\* SimpleFallback when the pipeline cannot be built
Pipelines == {"transformers", "SimpleFallback"}

\* summary_text values returned by the transformers pipeline: the model is
\* not part of the program, and generates at least min_length >= 1 tokens
ModelOutputs == {<<"a">>, <<"a", ".">>, <<" ", "a", ".", " ", "a", " ">>, <<".">>}

\* pipeline(text, max_length=..., ...)[0]["summary_text"]
SummaryText(pipeline, text, max_length, model_output) ==
    IF pipeline = "SimpleFallback" THEN SimpleFallback(text, max_length) ELSE model_output

\* the non-empty stripped segments of a sequence of segments
RECURSIVE StrippedNonEmpty(_)
StrippedNonEmpty(segments) ==
    IF segments = <<>> THEN <<>>
    ELSE (IF strip(Head(segments)) /= <<>> THEN <<strip(Head(segments))>> ELSE <<>>)
         \o StrippedNonEmpty(Tail(segments))

\* '- ' + '\n- '.join(sentences) over the segments of detailed_output
Bullets(detailed_output) ==
    <<"-", " ">> \o join(<<"\n", "-", " ">>, StrippedNonEmpty(split(detailed_output)))

\* a dict without keys, and a dict with one more key
EmptyDict == [key \in {} |-> <<>>]

SetItem(dict, key, value) == (key :> value) @@ dict

\* result.setdefault(key, value)
SetDefault(dict, key, value) ==
    IF key \in DOMAIN dict THEN dict ELSE SetItem(dict, key, value)

\* a summarize that leaves out the setdefault calls
summarize_without_defaults(pipeline, text, mode, short_output, detailed_output) ==
    LET stripped == strip(text)
        r1 == IF mode \in {"short", "both"}
              THEN SetItem(EmptyDict, "short_summary",
                           SummaryText(pipeline, stripped, SUMMARY_SHORT_MAX_LEN, short_output))
              ELSE EmptyDict
        r2 == IF mode \in {"detailed", "both"}
              THEN SetItem(r1, "detailed_notes",
                           Bullets(SummaryText(pipeline, stripped, SUMMARY_DETAILED_MAX_LEN,
                                               detailed_output)))
              ELSE r1
    IN  IF stripped = <<>>
        THEN SetItem(SetItem(EmptyDict, "short_summary", <<>>), "detailed_notes", <<>>)
        ELSE r2

\* SummarizationService.summarize(text, mode), the dict it returns; the
\* transformers pipeline returns short_output and detailed_output
summarize_text(pipeline, text, mode, short_output, detailed_output) ==
    LET stripped == strip(text)
        r1 == IF mode \in {"short", "both"}
              THEN SetItem(EmptyDict, "short_summary",
                           SummaryText(pipeline, stripped, SUMMARY_SHORT_MAX_LEN, short_output))
              ELSE EmptyDict
        r2 == IF mode \in {"detailed", "both"}
              THEN SetItem(r1, "detailed_notes",
                           Bullets(SummaryText(pipeline, stripped, SUMMARY_DETAILED_MAX_LEN,
                                               detailed_output)))
              ELSE r1
        r3 == IF mode = "short" THEN SetDefault(r2, "detailed_notes", <<>>) ELSE r2
        r4 == IF mode = "detailed" THEN SetDefault(r3, "short_summary", <<>>) ELSE r3
    IN  IF stripped = <<>>
        THEN SetItem(SetItem(EmptyDict, "short_summary", <<>>), "detailed_notes", <<>>)
        ELSE r4

\* a summarize that runs the pipeline before it tests for an empty text
invocations_before_empty_test(text, mode) ==
    (IF mode \in {"short", "both"} THEN 1 ELSE 0)
    + (IF mode \in {"detailed", "both"} THEN 1 ELSE 0)

\* the number of pipeline(...) calls that summarize(text, mode) makes: none
\* when it returns at the empty test, else one for each requested summary
pipeline_invocations(text, mode) ==
    IF strip(text) = <<>>
    THEN 0
    ELSE (IF mode \in {"short", "both"} THEN 1 ELSE 0)
         + (IF mode \in {"detailed", "both"} THEN 1 ELSE 0)

(* ------------------------------- Init ---------------------------------- *)

\* no function is called on its own
NoCall == [fn |-> "none"]

\* the tables are empty, the broker is empty, no request and no task runs
PipelineInit ==
    /\ documents = {}
    /\ summaries = {}
    /\ integrity_errors = 0
    /\ queue = [d \in DocIds |-> 0]
    /\ redeliveries = 0
    /\ returned = Response("none", 0, "")
    /\ uploadPc = [d \in DocIds |-> "none"]
    /\ retries = EmptyBag
    /\ retry_calls = 0
    /\ tasks = EmptyBag

\* no handle: the cache of _get_pipeline is empty, a caller holds nothing
NoHandle == [kind |-> "none", id |-> 0]

\* the process has started: service exists, nothing has called _get_pipeline
CacheInit ==
    /\ pipeline_cache = NoHandle
    /\ constructions = 0
    /\ callers = [t \in Callers |-> [pc |-> "idle", handle |-> NoHandle, calls |-> 0]]

Init ==
    /\ PipelineInit
    /\ fnCall = NoCall
    /\ fnResult = <<>>
    /\ CacheInit

(* --------------------- DocumentViewSet.create -------------------------- *)

\* the branch taken at the threshold too
DefersAtThreshold(text_len) == text_len >= AUTO_SUMMARY_MAX_CHAR

\* the branch compared against the extraction limit instead of the threshold
DefersAboveExtractLimit(text_len) == text_len > MAX_EXTRACT_CHAR

\* the branch of create(): a text longer than the threshold is deferred
DefersToAsync(text_len) == text_len > AUTO_SUMMARY_MAX_CHAR

\* a create() that saves the Document before it looks at what extraction
\* raised
UploadSavesFirst(has_file, extracted) ==
    /\ Cardinality(documents) < MaxUploads
    /\ LET id == Cardinality(documents) + 1
       IN  /\ documents' = documents \cup {[id |-> id, text_len |-> extracted.text_len]}
           /\ IF ~has_file \/ extracted.raised = "ExtractionError"
              THEN /\ returned' = Response("create", 0, "400")
                   /\ UNCHANGED uploadPc
              ELSE IF extracted.raised = "Exception"
              THEN /\ returned' = Response("create", 0, "500")
                   /\ UNCHANGED uploadPc
              ELSE /\ uploadPc' = [uploadPc EXCEPT ![id] = "branch"]
                   /\ UNCHANGED returned
    /\ UNCHANGED <<summaries, integrity_errors, queue, redeliveries, retryVars, tasks, fnVars, cacheVars>>

\* create() after the call of extract_text, up to serializer.save(): 400
\* without a file or when extraction raised ExtractionError, an unhandled
\* exception when the reader raised anything else, and otherwise the
\* Document row is written
UploadExtracted(has_file, extracted) ==
    /\ Cardinality(documents) < MaxUploads
    /\ LET id == Cardinality(documents) + 1
       IN  IF ~has_file \/ extracted.raised = "ExtractionError"
           THEN /\ returned' = Response("create", 0, "400")
                /\ UNCHANGED <<documents, uploadPc>>
           ELSE IF extracted.raised = "Exception"
           THEN /\ returned' = Response("create", 0, "500")
                /\ UNCHANGED <<documents, uploadPc>>
           ELSE /\ documents' = documents \cup {[id |-> id, text_len |-> extracted.text_len]}
                /\ uploadPc' = [uploadPc EXCEPT ![id] = "branch"]
                /\ UNCHANGED returned
    /\ UNCHANGED <<summaries, integrity_errors, queue, redeliveries, retryVars, tasks, fnVars, cacheVars>>

\* create() up to serializer.save(), for the uploaded file f
UploadExtract(has_file, f) == UploadExtracted(has_file, extract_text(f))

\* the large-document branch without its Summary.objects.create
UploadEnqueueOnly(d) ==
    /\ uploadPc[d] = "branch"
    /\ DefersToAsync(DocumentOf(d).text_len)
    /\ uploadPc' = [uploadPc EXCEPT ![d] = "enqueue"]
    /\ UNCHANGED <<dbVars, queue, redeliveries, returned, retryVars, tasks, fnVars, cacheVars>>

\* the large-document branch up to Summary.objects.create(status='pending')
UploadCreatePending(d) ==
    /\ uploadPc[d] = "branch"
    /\ DefersToAsync(DocumentOf(d).text_len)
    /\ LET created == SummaryCreate(summaries, d, "", "", "pending")
       IN  /\ summaries' = created.rows
           /\ integrity_errors' = integrity_errors + ErrorCount(created)
           /\ uploadPc' = [uploadPc EXCEPT ![d] = IF created.error THEN "done" ELSE "enqueue"]
           /\ returned' = IF created.error THEN Response("create", d, "500") ELSE returned
    /\ UNCHANGED <<documents, queue, redeliveries, retryVars, tasks, fnVars, cacheVars>>

\* generate_document_summary_async.delay(doc.id), then the 201 response
UploadEnqueue(d) ==
    /\ uploadPc[d] = "enqueue"
    /\ queue' = [queue EXCEPT ![d] = @ + 1]
    /\ uploadPc' = [uploadPc EXCEPT ![d] = "done"]
    /\ returned' = Response("create", d, "201")
    /\ UNCHANGED <<dbVars, redeliveries, retryVars, tasks, fnVars, cacheVars>>

\* the small-document branch without its try/except: an exception raised by
\* the generation leaves create() and no Summary is written
UploadSummarizeSyncPropagates(d, raises) ==
    /\ uploadPc[d] = "branch"
    /\ ~DefersToAsync(DocumentOf(d).text_len)
    /\ raises => PipelineCalled(DocumentOf(d).text_len)
    /\ LET generated == generate_document_summaries(DocumentOf(d).text_len)
           tried == IF raises THEN [rows |-> summaries, error |-> FALSE]
                    ELSE SummaryCreate(summaries, d, generated[1], generated[2], "complete")
       IN  /\ summaries' = tried.rows
           /\ integrity_errors' = integrity_errors + ErrorCount(tried)
           /\ returned' = Response("create", d, IF raises \/ tried.error THEN "500" ELSE "201")
    /\ uploadPc' = [uploadPc EXCEPT ![d] = "done"]
    /\ UNCHANGED <<documents, queue, redeliveries, retryVars, tasks, fnVars, cacheVars>>

\* the small-document branch: the summaries are generated inline and the
\* Summary is created complete, or failed when anything in the try raised
UploadSummarizeSync(d, raises) ==
    /\ uploadPc[d] = "branch"
    /\ ~DefersToAsync(DocumentOf(d).text_len)
    /\ raises => PipelineCalled(DocumentOf(d).text_len)
    /\ LET generated == generate_document_summaries(DocumentOf(d).text_len)
           tried == IF raises THEN [rows |-> summaries, error |-> FALSE]
                    ELSE SummaryCreate(summaries, d, generated[1], generated[2], "complete")
           caught == raises \/ tried.error
           handled == SummaryCreate(summaries, d, "", FailureNotes, "failed")
       IN  /\ summaries' = IF caught THEN handled.rows ELSE tried.rows
           /\ integrity_errors' = integrity_errors + ErrorCount(tried)
                                    + (IF caught THEN ErrorCount(handled) ELSE 0)
           /\ returned' = Response("create", d, IF caught /\ handled.error THEN "500" ELSE "201")
    /\ uploadPc' = [uploadPc EXCEPT ![d] = "done"]
    /\ UNCHANGED <<documents, queue, redeliveries, retryVars, tasks, fnVars, cacheVars>>

(* ------------------- DocumentViewSet.retry_summary --------------------- *)

\* a test that turns away only a pending Summary
RejectsOnlyPending(summary) == summary.status = "pending"

\* the test of retry_summary: summary.status != 'failed'
NotInFailedState(summary) == summary.status /= "failed"

\* retry_summary up to the status test: 404 without a Document or a
\* Summary, 400 unless the Summary read is failed
RetryRead(pk) ==
    /\ retry_calls < MaxRetries
    /\ LET summary == FirstSummary(summaries, pk)
       IN  IF ~DocumentExists(pk) \/ summary = NoSummary
           THEN /\ returned' = Response("retry_summary", pk, "404")
                /\ UNCHANGED retryVars
           ELSE IF NotInFailedState(summary)
           THEN /\ returned' = Response("retry_summary", pk, "400")
                /\ UNCHANGED retryVars
           ELSE /\ retries' = retries (+) SetToBag({[pc |-> "save", pk |-> pk, summary |-> summary]})
                /\ retry_calls' = retry_calls + 1
                /\ UNCHANGED returned
    /\ UNCHANGED <<dbVars, queue, redeliveries, uploadPc, tasks, fnVars, cacheVars>>

\* a retry that sends its message first, while the row is still failed, and
\* saves nothing
RetryEnqueuesFirst(call) ==
    /\ BagIn(call, retries)
    /\ call.pc = "save"
    /\ queue' = [queue EXCEPT ![call.pk] = @ + 1]
    /\ retries' = Remove(retries, call)
    /\ returned' = Response("retry_summary", call.pk, "200")
    /\ UNCHANGED <<dbVars, redeliveries, uploadPc, retry_calls, tasks, fnVars, cacheVars>>

\* a retry that resets the status and leaves the texts of the failed run
RetrySaveKeepsTexts(call) ==
    /\ BagIn(call, retries)
    /\ call.pc = "save"
    /\ LET inst == [call.summary EXCEPT !.status = "pending"]
           saved == SummarySave(summaries, inst)
       IN  /\ summaries' = saved.rows
           /\ integrity_errors' = integrity_errors + ErrorCount(saved)
           /\ IF saved.error
              THEN /\ retries' = Remove(retries, call)
                   /\ returned' = Response("retry_summary", call.pk, "500")
              ELSE /\ retries' = Replace(retries, call, [call EXCEPT !.pc = "enqueue", !.summary = inst])
                   /\ UNCHANGED returned
    /\ UNCHANGED <<documents, queue, redeliveries, uploadPc, retry_calls, tasks, fnVars, cacheVars>>

\* the instance is reset to pending with both texts cleared, and saved
RetrySave(call) ==
    /\ BagIn(call, retries)
    /\ call.pc = "save"
    /\ LET inst == [call.summary EXCEPT !.status = "pending",
                                        !.short_summary = "",
                                        !.detailed_notes = ""]
           saved == SummarySave(summaries, inst)
       IN  /\ summaries' = saved.rows
           /\ integrity_errors' = integrity_errors + ErrorCount(saved)
           /\ IF saved.error
              THEN /\ retries' = Remove(retries, call)
                   /\ returned' = Response("retry_summary", call.pk, "500")
              ELSE /\ retries' = Replace(retries, call, [call EXCEPT !.pc = "enqueue", !.summary = inst])
                   /\ UNCHANGED returned
    /\ UNCHANGED <<documents, queue, redeliveries, uploadPc, retry_calls, tasks, fnVars, cacheVars>>

\* generate_document_summary_async.delay(doc.id), then the 200 response
RetryEnqueue(call) ==
    /\ BagIn(call, retries)
    /\ call.pc = "enqueue"
    /\ queue' = [queue EXCEPT ![call.pk] = @ + 1]
    /\ retries' = Remove(retries, call)
    /\ returned' = Response("retry_summary", call.pk, "200")
    /\ UNCHANGED <<dbVars, redeliveries, uploadPc, retry_calls, tasks, fnVars, cacheVars>>

(* ---------------- generate_document_summary_async ---------------------- *)

\* a test that lets the task run on any Summary that is not complete
IsNotComplete(summary) == summary /= NoSummary /\ summary.status /= "complete"

\* the test of the task: summary and summary.status == 'pending'
IsPending(summary) == summary /= NoSummary /\ summary.status = "pending"

\* a worker receives a message and runs the task up to the test of the
\* status: Document.objects.get, doc.summaries.first(), and the task goes on
\* only with a Summary it read as pending.  A delivery that is not
\* acknowledged leaves the message in the broker to be delivered again.
TaskLookup(d, redelivered) ==
    /\ BagCardinality(tasks) < NumWorkers
    /\ queue[d] > 0
    /\ redelivered => redeliveries < MaxRedeliveries
    /\ queue' = IF redelivered THEN queue ELSE [queue EXCEPT ![d] = @ - 1]
    /\ redeliveries' = IF redelivered THEN redeliveries + 1 ELSE redeliveries
    /\ LET summary == FirstSummary(summaries, d)
       IN  IF ~DocumentExists(d)
           THEN /\ returned' = TaskResult(d, "Document not found")
                /\ UNCHANGED tasks
           ELSE IF IsPending(summary)
           THEN /\ tasks' = tasks (+) SetToBag({[pc |-> "claim", document_id |-> d, summary |-> summary]})
                /\ UNCHANGED returned
           ELSE /\ returned' = TaskResult(d, "No pending summary found")
                /\ UNCHANGED tasks
    /\ UNCHANGED <<dbVars, uploadPc, retryVars, fnVars, cacheVars>>

\* summary.status = 'processing'; summary.save(); then the engine is called
TaskClaim(task) ==
    /\ BagIn(task, tasks)
    /\ task.pc = "claim"
    /\ LET inst == [task.summary EXCEPT !.status = "processing"]
           saved == SummarySave(summaries, inst)
       IN  /\ summaries' = saved.rows
           /\ integrity_errors' = integrity_errors + ErrorCount(saved)
           /\ IF saved.error
              THEN /\ tasks' = Remove(tasks, task)
                   /\ returned' = TaskResult(task.document_id, "Error generating summary")
              ELSE /\ tasks' = Replace(tasks, task, [task EXCEPT !.pc = "generate", !.summary = inst])
                   /\ UNCHANGED returned
    /\ UNCHANGED <<documents, queue, redeliveries, uploadPc, retryVars, fnVars, cacheVars>>

\* generate_document_summaries returned: both texts and status complete are
\* saved and the task returns
TaskComplete(task) ==
    /\ BagIn(task, tasks)
    /\ task.pc = "generate"
    /\ LET generated == generate_document_summaries(DocumentOf(task.document_id).text_len)
           inst == [task.summary EXCEPT !.short_summary = generated[1],
                                        !.detailed_notes = generated[2],
                                        !.status = "complete"]
           saved == SummarySave(summaries, inst)
       IN  /\ summaries' = saved.rows
           /\ integrity_errors' = integrity_errors + ErrorCount(saved)
    /\ tasks' = Remove(tasks, task)
    /\ returned' = TaskResult(task.document_id, "Summary generated")
    /\ UNCHANGED <<documents, queue, redeliveries, uploadPc, retryVars, fnVars, cacheVars>>

\* where an exception is raised in a task that has claimed its Summary: in
\* generate_document_summaries (line 18), or in the save of the result
\* (line 24), after the generated texts and status complete were assigned
\* to the instance
ExceptionPoints == {"generate", "save"}

\* the instance of the task when the exception is raised
InstanceAtException(task, at) ==
    LET generated == generate_document_summaries(DocumentOf(task.document_id).text_len)
    IN  IF at = "generate" THEN task.summary
        ELSE [task.summary EXCEPT !.short_summary = generated[1],
                                  !.detailed_notes = generated[2],
                                  !.status = "complete"]

\* an exception after the claim: the statement that raised wrote nothing,
\* and the except branch sets status failed and the failure text in
\* detailed_notes on the instance and saves it; the task returns, or, when
\* this save raises too, the exception leaves the task and no row is written
TaskFail(task, at, handler_raises) ==
    /\ BagIn(task, tasks)
    /\ task.pc = "generate"
    /\ PipelineCalled(DocumentOf(task.document_id).text_len)
    /\ LET inst == [InstanceAtException(task, at) EXCEPT !.status = "failed",
                                                         !.detailed_notes = FailureNotes]
           saved == IF handler_raises THEN [rows |-> summaries, error |-> FALSE]
                    ELSE SummarySave(summaries, inst)
       IN  /\ summaries' = saved.rows
           /\ integrity_errors' = integrity_errors + ErrorCount(saved)
    /\ tasks' = Remove(tasks, task)
    /\ returned' = TaskResult(task.document_id,
                              IF handler_raises THEN "Exception"
                              ELSE "Error generating summary")
    /\ UNCHANGED <<documents, queue, redeliveries, uploadPc, retryVars, fnVars, cacheVars>>

(* --------------------------- specification ----------------------------- *)

Next ==
    \/ \E has_file \in BOOLEAN, f \in UploadedFiles : UploadExtract(has_file, f)
    \/ \E d \in DocIds : UploadCreatePending(d)
    \/ \E d \in DocIds : UploadEnqueue(d)
    \/ \E d \in DocIds, raises \in BOOLEAN : UploadSummarizeSync(d, raises)
    \/ \E pk \in DocIds : RetryRead(pk)
    \/ \E call \in BagToSet(retries) : RetrySave(call)
    \/ \E call \in BagToSet(retries) : RetryEnqueue(call)
    \/ \E d \in DocIds, redelivered \in BOOLEAN : TaskLookup(d, redelivered)
    \/ \E task \in BagToSet(tasks) : TaskClaim(task)
    \/ \E task \in BagToSet(tasks) : TaskComplete(task)
    \/ \E task \in BagToSet(tasks) : TaskFail(task, "generate", FALSE)

\* the program while every statement sent to the database succeeds
Spec == Init /\ [][Next]_vars

\* a save() of a task that has claimed its Summary raises (the database is
\* locked by another writer, the connection is lost): the save of the
\* result, the save of the except branch, or both
TaskSaveRaises(task, at, handler_raises) ==
    /\ at = "save" \/ handler_raises
    /\ TaskFail(task, at, handler_raises)

FaultNext ==
    \/ Next
    \/ \E task \in BagToSet(tasks), at \in ExceptionPoints, handler_raises \in BOOLEAN :
          TaskSaveRaises(task, at, handler_raises)

\* the program while the saves of a task may raise
FaultSpec == Init /\ [][FaultNext]_vars

\* the scheduling: a request that has started runs to its response, every
\* message in the broker is eventually delivered to a free worker and
\* acknowledged, and a task that has started runs until it returns or raises
Fairness ==
    /\ \A d \in DocIds :
          /\ WF_vars(UploadCreatePending(d))
          /\ WF_vars(UploadEnqueue(d))
          /\ WF_vars(\E raises \in BOOLEAN : UploadSummarizeSync(d, raises))
          /\ WF_vars(TaskLookup(d, FALSE))
    /\ WF_vars(\E call \in BagToSet(retries) : RetrySave(call))
    /\ WF_vars(\E call \in BagToSet(retries) : RetryEnqueue(call))
    /\ WF_vars(\E task \in BagToSet(tasks) : TaskClaim(task))
    /\ WF_vars(\E task \in BagToSet(tasks) :
                  \/ TaskComplete(task)
                  \/ \E at \in ExceptionPoints, handler_raises \in BOOLEAN :
                        TaskFail(task, at, handler_raises))

FairSpec == FaultSpec /\ Fairness

(* ------------------- functions called on their own --------------------- *)

\* extract_text has read a text from the file and is about to clean it up,
\* with settings.MAX_EXTRACT_CHAR = max_chars
ExtractInit ==
    /\ PipelineInit
    /\ fnCall \in [fn : {"extract_text"}, text : Texts, max_chars : 0..MaxLimit,
                   done : {FALSE}]
    /\ fnResult = <<>>
    /\ CacheInit

\* a cleanup that cuts the text the reader returned before it strips it
ExtractCutsFirst ==
    /\ fnCall.fn = "extract_text"
    /\ ~fnCall.done
    /\ fnResult' = strip(Slice(fnCall.text, fnCall.max_chars))
    /\ fnCall' = [fnCall EXCEPT !.done = TRUE]
    /\ UNCHANGED <<pipelineVars, cacheVars>>

\* extract_text returns the cleaned text
ExtractReturn ==
    /\ fnCall.fn = "extract_text"
    /\ ~fnCall.done
    /\ fnResult' = extract_text_cleanup(fnCall.text, fnCall.max_chars)
    /\ fnCall' = [fnCall EXCEPT !.done = TRUE]
    /\ UNCHANGED <<pipelineVars, cacheVars>>

ExtractNext == ExtractReturn

ExtractSpec == ExtractInit /\ [][ExtractNext]_vars

\* extract_text is called with a file
DispatchInit ==
    /\ PipelineInit
    /\ fnCall \in [fn : {"extract_text(file_obj)"}, file_obj : FileObjects, done : {FALSE}]
    /\ fnResult = <<>>
    /\ CacheInit

\* extract_text returns or raises
DispatchReturn ==
    /\ fnCall.fn = "extract_text(file_obj)"
    /\ ~fnCall.done
    /\ fnResult' = extract_text_file(fnCall.file_obj)
    /\ fnCall' = [fnCall EXCEPT !.done = TRUE]
    /\ UNCHANGED <<pipelineVars, cacheVars>>

DispatchNext == DispatchReturn

DispatchSpec == DispatchInit /\ [][DispatchNext]_vars

\* summarize, in a process whose pipeline is the SimpleFallback, has
\* stripped the text and is about to call pipeline(text, max_length=...)
FallbackInit ==
    /\ PipelineInit
    /\ fnCall \in [fn : {"SimpleFallback"}, text : Texts, max_length : 0..MaxLength,
                   done : {FALSE}]
    /\ fnResult = <<>>
    /\ CacheInit

\* the SimpleFallback returns [{"summary_text": result}] for the stripped text
FallbackReturn ==
    /\ fnCall.fn = "SimpleFallback"
    /\ ~fnCall.done
    /\ fnResult' = SimpleFallback(strip(fnCall.text), fnCall.max_length)
    /\ fnCall' = [fnCall EXCEPT !.done = TRUE]
    /\ UNCHANGED <<pipelineVars, cacheVars>>

FallbackNext == FallbackReturn

FallbackSpec == FallbackInit /\ [][FallbackNext]_vars

\* summarize in mode detailed or both has the summary_text of the pipeline,
\* which is not empty, in detailed_output and is about to render it
BulletsInit ==
    /\ PipelineInit
    /\ fnCall \in [fn : {"bullets"}, detailed_output : Texts \ {<<>>}, done : {FALSE}]
    /\ fnResult = <<>>
    /\ CacheInit

\* summarize has rendered result["detailed_notes"]
BulletsReturn ==
    /\ fnCall.fn = "bullets"
    /\ ~fnCall.done
    /\ fnResult' = Bullets(fnCall.detailed_output)
    /\ fnCall' = [fnCall EXCEPT !.done = TRUE]
    /\ UNCHANGED <<pipelineVars, cacheVars>>

BulletsNext == BulletsReturn

BulletsSpec == BulletsInit /\ [][BulletsNext]_vars

\* summarize is called with a text and a mode, in a process where
\* _get_pipeline() returns the given pipeline; invocations counts the
\* pipeline(...) calls of the call
SummarizeInit ==
    /\ PipelineInit
    /\ fnCall \in [fn : {"summarize"}, text : Texts, mode : {"short", "detailed", "both"},
                   pipeline : Pipelines, invocations : {0}, done : {FALSE}]
    /\ fnResult = <<>>
    /\ CacheInit

\* summarize returns its dict
SummarizeReturn(short_output, detailed_output) ==
    /\ fnCall.fn = "summarize"
    /\ ~fnCall.done
    /\ fnResult' = summarize_text(fnCall.pipeline, fnCall.text, fnCall.mode,
                                  short_output, detailed_output)
    /\ fnCall' = [fnCall EXCEPT !.done = TRUE,
                               !.invocations = pipeline_invocations(fnCall.text, fnCall.mode)]
    /\ UNCHANGED <<pipelineVars, cacheVars>>

SummarizeNext ==
    \E short_output \in ModelOutputs, detailed_output \in ModelOutputs :
        SummarizeReturn(short_output, detailed_output)

SummarizeSpec == SummarizeInit /\ [][SummarizeNext]_vars

(* ------------- SummarizationService._get_pipeline, lru_cache ---------- *)

\* the wrapper of lru_cache looks the key (self) up: a hit returns the cached
\* handle, a miss goes on to call the wrapped function, outside any lock
CacheLookup(t) ==
    /\ callers[t].pc = "idle"
    /\ callers[t].calls < MaxCalls
    /\ callers' = [callers EXCEPT ![t] =
                      IF pipeline_cache /= NoHandle
                      THEN [pc |-> "idle", handle |-> pipeline_cache, calls |-> @.calls + 1]
                      ELSE [@ EXCEPT !.pc = "construct"]]
    /\ UNCHANGED <<pipeline_cache, constructions, pipelineVars, fnVars>>

\* the body of _get_pipeline runs: it builds the transformers pipeline, or
\* the SimpleFallback when the import or the construction raises
PipelineConstruct(t, kind) ==
    /\ callers[t].pc = "construct"
    /\ constructions' = constructions + 1
    /\ callers' = [callers EXCEPT ![t] =
                      [@ EXCEPT !.pc = "store",
                                !.handle = [kind |-> kind, id |-> constructions + 1]]]
    /\ UNCHANGED <<pipeline_cache, pipelineVars, fnVars>>

\* the wrapper stores the result unless the key was added to the cache
\* during the call, and returns the result it computed
CacheStore(t) ==
    /\ callers[t].pc = "store"
    /\ pipeline_cache' = IF pipeline_cache = NoHandle THEN callers[t].handle
                         ELSE pipeline_cache
    /\ callers' = [callers EXCEPT ![t] = [@ EXCEPT !.pc = "idle", !.calls = @ + 1]]
    /\ UNCHANGED <<constructions, pipelineVars, fnVars>>

CacheNext ==
    \E t \in Callers :
        \/ CacheLookup(t)
        \/ \E kind \in Pipelines : PipelineConstruct(t, kind)
        \/ CacheStore(t)

CacheSpec == Init /\ [][CacheNext]_vars

(* ------------------- DocumentViewSet.retrieve_summary ------------------ *)

\* what a status read of document pk returns now
retrieve_summary(pk) ==
    LET summary == FirstSummary(summaries, pk)
    IN  IF ~DocumentExists(pk) \/ summary = NoSummary
        THEN [code |-> "404", status |-> "none", short_summary |-> "", detailed_notes |-> ""]
        ELSE [code |-> "200", status |-> summary.status,
              short_summary |-> summary.short_summary,
              detailed_notes |-> summary.detailed_notes]

(* ------------------------------ properties ----------------------------- *)

\* the persisted Summary of document d, in this state and in the next one
SummaryNow(d) == FirstSummary(summaries, d)

SummaryNext(d) == FirstSummary(summaries', d)

\* the tasks that are inside generate_document_summaries for document d,
\* as a bag, and how many they are
Generating(d) ==
    [t \in {t \in BagToSet(tasks) : t.pc = "generate" /\ t.document_id = d} |-> CopiesIn(t, tasks)]

NumGenerating(d) == BagCardinality(Generating(d))

\* C1: every Document has at most one Summary and the unique constraint is
\* never hit; a step that adds a Summary row is the create() call of that
\* row's Document, which had none, and no step removes a row or moves it to
\* another Document.
C1_OneSummaryPerDocument ==
    /\ [](\A d \in DocIds : Cardinality(SummariesOf(summaries, d)) <= 1)
    /\ [](integrity_errors = 0)
    /\ [][ /\ \A s \in summaries' :
                \/ \E t \in summaries : t.id = s.id /\ t.document = s.document
                \/ /\ uploadPc[s.document] = "branch"
                   /\ uploadPc'[s.document] /= "branch"
                   /\ SummariesOf(summaries, s.document) = {}
           /\ \A t \in summaries : \E s \in summaries' : s.id = t.id ]_vars

\* a retry has saved and a task has then claimed the one Summary of a Document
C1_Witness ==
    \E d \in DocIds :
        /\ Cardinality(SummariesOf(summaries, d)) = 1
        /\ retry_calls > 0
        /\ SummaryNow(d).status = "processing"

\* C2: once create() has returned for a Document it saved, that Document has
\* exactly one Summary.
C2_ExactlyOneAfterSubmit ==
    \A d \in DocIds :
        uploadPc[d] = "done" => Cardinality(SummariesOf(summaries, d)) = 1

\* create() has returned 201 after the inline generation failed
C2_Witness ==
    \E d \in DocIds :
        /\ uploadPc[d] = "done"
        /\ returned = Response("create", d, "201")
        /\ SummaryNow(d).status = "failed"
        /\ Cardinality(SummariesOf(summaries, d)) = 1

\* C3: for a text no longer than AUTO_SUMMARY_MAX_CHAR, the step of create()
\* after the Document is saved returns 201 and leaves a Summary that is
\* complete with the result of summarize in mode both, or failed; the
\* broker is not touched by any step of such a create() call.
C3_SyncPathTerminal ==
    [][ \A d \in DocIds :
        /\ (/\ uploadPc'[d] /= uploadPc[d]
            /\ \E doc \in documents' : doc.id = d /\ doc.text_len <= AUTO_SUMMARY_MAX_CHAR)
           => queue' = queue /\ uploadPc'[d] /= "enqueue"
        /\
          (/\ uploadPc[d] = "branch"
           /\ uploadPc'[d] /= "branch"
           /\ DocumentOf(d).text_len <= AUTO_SUMMARY_MAX_CHAR)
          => /\ uploadPc'[d] = "done"
             /\ returned' = Response("create", d, "201")
             /\ queue' = queue
             /\ SummaryNext(d).status \in {"complete", "failed"}
             /\ SummaryNext(d).status = "complete" =>
                  /\ SummaryNext(d).short_summary =
                        summarize(DocumentOf(d).text_len, "both").short_summary
                  /\ SummaryNext(d).detailed_notes =
                        summarize(DocumentOf(d).text_len, "both").detailed_notes ]_vars

\* a text of exactly AUTO_SUMMARY_MAX_CHAR characters was summarized inline
C3_Witness ==
    \E d \in DocIds :
        /\ uploadPc[d] = "done"
        /\ DocumentOf(d).text_len = AUTO_SUMMARY_MAX_CHAR
        /\ SummaryNow(d).status = "complete"
        /\ returned = Response("create", d, "201")
        /\ queue[d] = 0

\* what create() leaves when it returns on the asynchronous path: a pending
\* Summary with both texts empty and one message for the document
ReturnsPendingWithOneJob(d) ==
    /\ returned' = Response("create", d, "201")
    /\ SummaryNext(d).status = "pending"
    /\ SummaryNext(d).short_summary = ""
    /\ SummaryNext(d).detailed_notes = ""
    /\ queue' = [queue EXCEPT ![d] = 1]
    /\ redeliveries' = redeliveries

UploadReturns(d) == uploadPc[d] /= "done" /\ uploadPc'[d] = "done"

\* C4 as stated: for a text of AUTO_SUMMARY_MAX_CHAR characters or more,
\* create() returns with a pending Summary, both texts empty, and exactly
\* one message enqueued for the document.
C4_AtOrAboveThreshold ==
    [][ \A d \in DocIds :
          (UploadReturns(d) /\ DocumentOf(d).text_len >= AUTO_SUMMARY_MAX_CHAR)
          => ReturnsPendingWithOneJob(d) ]_vars

\* C4 amended: for a text of more than AUTO_SUMMARY_MAX_CHAR characters,
\* create() returns with a pending Summary, both texts empty, and exactly
\* one message enqueued for the document.
C4_AboveThreshold ==
    [][ \A d \in DocIds :
          (UploadReturns(d) /\ DocumentOf(d).text_len > AUTO_SUMMARY_MAX_CHAR)
          => ReturnsPendingWithOneJob(d) ]_vars

\* create() has returned for a text above the threshold and its message
\* waits in the broker
C4_Witness ==
    \E d \in DocIds :
        /\ uploadPc[d] = "done"
        /\ DocumentOf(d).text_len > AUTO_SUMMARY_MAX_CHAR
        /\ returned = Response("create", d, "201")
        /\ SummaryNow(d).status = "pending"
        /\ queue[d] = 1

\* a step in which a retry_summary() call passes the status test for pk
RetryAccepted(pk) ==
    \E call \in BagToSet(retries') :
        /\ call.pk = pk
        /\ call.pc = "save"
        /\ CopiesIn(call, retries') > CopiesIn(call, retries)

\* a step in which retry_summary() answers pk with the given status code
RetryAnswers(pk, code) ==
    /\ returned' = Response("retry_summary", pk, code)
    /\ returned' /= returned

\* C5: a retry_summary() call passes the status test only on a Summary that
\* is failed; a call answered 400 found a Summary that is pending,
\* processing or complete, a call answered 404 found no Summary, and
\* neither changes any row, the broker, or any call or task in progress.
C5_RetryRejected ==
    [][ \A pk \in DocIds :
          /\ RetryAccepted(pk) => SummaryNow(pk).status = "failed"
          /\ RetryAnswers(pk, "400") =>
                /\ SummaryNow(pk).status \in {"pending", "processing", "complete"}
                /\ UNCHANGED <<dbVars, queue, redeliveries, uploadPc, retryVars, tasks>>
          /\ RetryAnswers(pk, "404") =>
                /\ SummaryNow(pk) = NoSummary
                /\ UNCHANGED <<dbVars, queue, redeliveries, uploadPc, retryVars, tasks>> ]_vars

\* a retry of a complete Summary was answered 400
C5_Witness ==
    \E pk \in DocIds :
        /\ returned = Response("retry_summary", pk, "400")
        /\ SummaryNow(pk).status = "complete"
        /\ retry_calls = 0

\* C6: the save of a retry_summary() call that passed the status test leaves
\* the Summary pending with both texts empty, and the call then enqueues
\* exactly one message for the same document and answers 200.
C6_RetryEffect ==
    [][ \A call \in BagToSet(retries) :
          /\ (call.pc = "save" /\ CopiesIn(call, retries') < CopiesIn(call, retries)) =>
                /\ SummaryNext(call.pk).status = "pending"
                /\ SummaryNext(call.pk).short_summary = ""
                /\ SummaryNext(call.pk).detailed_notes = ""
                /\ queue' = queue
                /\ BagCardinality(retries') = BagCardinality(retries)
          /\ (call.pc = "enqueue" /\ CopiesIn(call, retries') < CopiesIn(call, retries)) =>
                /\ queue' = [queue EXCEPT ![call.pk] = @ + 1]
                /\ returned' = Response("retry_summary", call.pk, "200")
                /\ summaries' = summaries
                /\ call.summary.status = "pending" ]_vars

\* a retry of a failed Summary has been answered 200: the Summary is pending
\* with both texts empty and the message waits in the broker
C6_Witness ==
    \E pk \in DocIds :
        /\ returned = Response("retry_summary", pk, "200")
        /\ SummaryNow(pk).status = "pending"
        /\ SummaryNow(pk).short_summary = ""
        /\ SummaryNow(pk).detailed_notes = ""
        /\ queue[pk] = 1

\* a step in which a message is delivered to a worker
Delivered == redeliveries' > redeliveries \/ \E d \in DocIds : queue'[d] < queue[d]

\* C7: a delivery starts a task only for a Document whose Summary it reads
\* as pending, and no delivery changes a row; for a Summary that is missing,
\* processing, complete or failed the task returns at once, so the engine
\* is not called.
C7_ExecutorNoOp ==
    [][ /\ Delivered => UNCHANGED dbVars
        /\ \A t \in BagToSet(tasks') :
              (t.pc = "claim" /\ CopiesIn(t, tasks') > CopiesIn(t, tasks)) =>
                  /\ SummaryNow(t.document_id).status = "pending"
                  /\ t.summary = SummaryNow(t.document_id)
        /\ \A d \in DocIds :
              (returned' = TaskResult(d, "No pending summary found") /\ returned' /= returned) =>
                  /\ SummaryNow(d).status /= "pending"
                  /\ UNCHANGED <<dbVars, tasks, retryVars, uploadPc>> ]_vars

\* a second delivery found the Summary processing and returned at once
C7_Witness ==
    \E d \in DocIds :
        /\ returned = TaskResult(d, "No pending summary found")
        /\ SummaryNow(d).status = "processing"
        /\ NumGenerating(d) = 1
        /\ BagCardinality(tasks) = 1

\* C8: at most one task at a time is inside the engine for the same
\* Document, however often its message is delivered.
C8_NoDuplicateProcessing ==
    \A d \in DocIds : NumGenerating(d) <= 1

\* C9: the save of a retry_summary() call is a compare-and-set: it is made
\* only while the persisted status is still failed, so of two calls that
\* read the same failed Summary only one writes pending and enqueues.
C9_RetryCompareAndSet ==
    [][ \A call \in BagToSet(retries) :
          (call.pc = "save" /\ CopiesIn(call, retries') < CopiesIn(call, retries))
          => SummaryNow(call.pk).status = "failed" ]_vars

\* C10: while a task is inside the engine for a Document, a status read of
\* that Document returns processing.
C10_ProcessingWhileGenerating ==
    \A d \in DocIds :
        NumGenerating(d) > 0 => retrieve_summary(d).status = "processing"

\* C11: whenever an exception is raised in a task that has claimed its
\* Summary, in the engine or in the save of the result, the step leaves the
\* Summary failed, with the failure text in detailed_notes and an empty
\* short_summary.
C11_ExceptionLeavesFailed ==
    [][ \A task \in BagToSet(tasks), at \in ExceptionPoints, handler_raises \in BOOLEAN :
          TaskFail(task, at, handler_raises) =>
              /\ SummaryNext(task.document_id).status = "failed"
              /\ SummaryNext(task.document_id).detailed_notes = FailureNotes
              /\ SummaryNext(task.document_id).short_summary = "" ]_vars

\* C12: under fair scheduling and delivery, a Summary that is pending or
\* processing is eventually complete or failed.
C12_EventuallyTerminal ==
    \A d \in DocIds :
        (SummaryNow(d).status \in {"pending", "processing"})
            ~> (SummaryNow(d).status \in {"complete", "failed"})

\* C13: once the persisted status of a Summary is complete, no step of a
\* retry_summary() call or of a task changes its status, its short_summary
\* or its detailed_notes.
C13_CompleteIsTerminal ==
    [][ \A d \in DocIds :
          SummaryNow(d).status = "complete" => SummaryNext(d) = SummaryNow(d) ]_vars

\* the changes of status of the lifecycle: the claim and the finish of a
\* task, and the retry
StatusTransitions ==
    { <<"pending", "processing">>, <<"processing", "complete">>,
      <<"processing", "failed">>, <<"failed", "pending">> }

\* C14: every step that changes the persisted status of a Summary makes one
\* of the changes pending to processing, processing to complete, processing
\* to failed, failed to pending; a step that creates a Summary creates it
\* pending, complete or failed.
C14_OnlyLifecycleTransitions ==
    [][ \A d \in DocIds :
          /\ (SummaryNow(d) /= NoSummary /\ SummaryNext(d).status /= SummaryNow(d).status)
                => <<SummaryNow(d).status, SummaryNext(d).status>> \in StatusTransitions
          /\ (SummaryNow(d) = NoSummary /\ SummaryNext(d) /= NoSummary)
                => SummaryNext(d).status \in {"pending", "complete", "failed"} ]_vars

\* C15: when the inline generation of create() raises, the step keeps the
\* Document, answers 201, and creates the Summary failed with an empty
\* short_summary and the failure text in detailed_notes; every step that
\* ends the small-document branch answers 201 and leaves a Summary.
C15_SyncFailureIsolated ==
    [][ \A d \in DocIds :
          /\ UploadSummarizeSync(d, TRUE) =>
                /\ returned' = Response("create", d, "201")
                /\ documents' = documents
                /\ DocumentExists(d)
                /\ SummaryNow(d) = NoSummary
                /\ SummaryNext(d).status = "failed"
                /\ SummaryNext(d).short_summary = ""
                /\ SummaryNext(d).detailed_notes = FailureNotes
          /\ (/\ uploadPc[d] = "branch"
              /\ uploadPc'[d] = "done"
              /\ DocumentOf(d).text_len <= AUTO_SUMMARY_MAX_CHAR) =>
                /\ returned' = Response("create", d, "201")
                /\ SummaryNext(d) /= NoSummary ]_vars

\* create() has answered 201 for a Document whose inline generation raised:
\* the Document is saved and its Summary is failed with the failure text
C15_Witness ==
    \E d \in DocIds :
        /\ returned = Response("create", d, "201")
        /\ DocumentExists(d)
        /\ DocumentOf(d).text_len <= AUTO_SUMMARY_MAX_CHAR
        /\ SummaryNow(d).status = "failed"
        /\ SummaryNow(d).short_summary = ""
        /\ SummaryNow(d).detailed_notes = FailureNotes
        /\ retry_calls = 0

\* what extract_text returns to create() when it raises, for any of the
\* uploaded files
ExtractionFailures ==
    {extract_text(f) : f \in {g \in UploadedFiles : extract_text(g).raised /= "none"}}

\* C16: a create() call whose extraction raises, for a file that is too
\* large, of an unsupported type, or that the reader cannot parse, answers
\* with an error status and writes no Document and no Summary and sends no
\* message.
C16_ExtractionFailureWritesNothing ==
    [][ \A extracted \in ExtractionFailures :
          UploadExtracted(TRUE, extracted) =>
              /\ returned' \in {Response("create", 0, "400"), Response("create", 0, "500")}
              /\ UNCHANGED <<dbVars, queue, redeliveries, uploadPc, retryVars, tasks>> ]_vars

\* create() has answered a file that the PDF reader could not parse: no
\* Document, no Summary and no message exist
C16_Witness ==
    /\ returned = Response("create", 0, "500")
    /\ documents = {}
    /\ summaries = {}
    /\ \A d \in DocIds : queue[d] = 0 /\ uploadPc[d] = "none"

\* C17 as stated: every Summary that is complete has a non-empty
\* short_summary and non-empty detailed_notes, whatever the extracted text,
\* the empty one included.
C17_CompletePopulated ==
    \A s \in summaries :
        s.status = "complete" => s.short_summary /= "" /\ s.detailed_notes /= ""

\* C17 amended: every Summary that is complete has a non-empty
\* short_summary and non-empty detailed_notes when the extracted text of its
\* Document is not empty, and has both empty when that text is empty.
C17_CompletePopulatedUnlessEmptyText ==
    \A s \in summaries :
        s.status = "complete" =>
            IF DocumentOf(s.document).text_len > 0
            THEN s.short_summary /= "" /\ s.detailed_notes /= ""
            ELSE s.short_summary = "" /\ s.detailed_notes = ""

\* a task has written complete with both texts for a Document that was
\* deferred, after its Summary was pending
C17_Witness ==
    \E d \in DocIds :
        /\ returned = TaskResult(d, "Summary generated")
        /\ DocumentOf(d).text_len > AUTO_SUMMARY_MAX_CHAR
        /\ SummaryNow(d).status = "complete"
        /\ SummaryNow(d).short_summary = ModelShortText
        /\ SummaryNow(d).detailed_notes = ModelBullets

\* a step in which a retry_summary() call for pk makes its save
\* (RetrySaves), or sends its message and answers 200 (RetryEnqueues)
RetrySaves(pk) ==
    \E call \in BagToSet(retries) :
        /\ call.pk = pk
        /\ call.pc = "save"
        /\ CopiesIn(call, retries') < CopiesIn(call, retries)

RetryEnqueues(pk) ==
    /\ \E call \in BagToSet(retries) :
          /\ call.pk = pk
          /\ call.pc = "enqueue"
          /\ CopiesIn(call, retries') < CopiesIn(call, retries)
    /\ returned' = Response("retry_summary", pk, "200")

\* a step in which create() sends the message of a deferred Document and
\* answers 201
UploadEnqueues(d) ==
    /\ uploadPc[d] = "enqueue"
    /\ uploadPc'[d] = "done"
    /\ returned' = Response("create", d, "201")

\* C18: a Summary that is failed stays failed until the save of a
\* retry_summary() call; a message is added to the broker only by a create()
\* call that deferred the Document and by a retry_summary() call that
\* answers 200, one message each, and never by a task; so the messages ever
\* sent are as many as the deferred uploads plus the accepted retries.
C18_NoAutomaticRetry ==
    [][ \A d \in DocIds :
          /\ (SummaryNow(d).status = "failed" /\ SummaryNext(d).status /= "failed")
                => RetrySaves(d)
          /\ queue'[d] > queue[d] =>
                /\ queue'[d] = queue[d] + 1
                /\ UploadEnqueues(d) \/ RetryEnqueues(d)
                /\ tasks' = tasks
          /\ (UploadEnqueues(d) \/ RetryEnqueues(d)) => queue'[d] = queue[d] + 1 ]_vars

\* the text without its leading and trailing whitespace: from its first to
\* its last character that is not whitespace
Trimmed(text) ==
    LET inked == {i \in 1..Len(text) : text[i] \notin Whitespace}
    IN  IF inked = {} THEN <<>>
        ELSE SubSeq(text, CHOOSE i \in inked : \A j \in inked : i <= j,
                          CHOOSE i \in inked : \A j \in inked : i >= j)

\* C19: extract_text returns the trimmed text when it has at most
\* MAX_EXTRACT_CHAR characters, and otherwise exactly its first
\* MAX_EXTRACT_CHAR characters; the result never has more than
\* MAX_EXTRACT_CHAR characters.
C19_TrimmedThenCut ==
    (fnCall.fn = "extract_text" /\ fnCall.done) =>
        LET trimmed == Trimmed(fnCall.text)
            limit == fnCall.max_chars
        IN  /\ Len(trimmed) <= limit => fnResult = trimmed
            /\ Len(trimmed) > limit =>
                  /\ Len(fnResult) = limit
                  /\ \A i \in 1..limit : fnResult[i] = trimmed[i]
            /\ Len(fnResult) <= limit

\* a text with whitespace around it and more than max_chars characters
\* between was cut in the middle, after a whitespace character
C19_Witness ==
    /\ fnCall.fn = "extract_text"
    /\ fnCall.done
    /\ Len(Trimmed(fnCall.text)) < Len(fnCall.text)
    /\ Len(Trimmed(fnCall.text)) > fnCall.max_chars
    /\ fnCall.max_chars > 1
    /\ Len(fnResult) = fnCall.max_chars
    /\ fnResult[Len(fnResult)] \in Whitespace

\* C20: the dict that summarize returns has both keys; with mode short its
\* detailed_notes is empty, with mode detailed its short_summary is empty,
\* and with mode both neither is empty when the text is not empty after
\* trimming.
C20_ModesOfSummarize ==
    (fnCall.fn = "summarize" /\ fnCall.done) =>
        /\ DOMAIN fnResult = {"short_summary", "detailed_notes"}
        /\ fnCall.mode = "short" => fnResult["detailed_notes"] = <<>>
        /\ fnCall.mode = "detailed" => fnResult["short_summary"] = <<>>
        /\ (fnCall.mode = "both" /\ Trimmed(fnCall.text) /= <<>>) =>
              /\ fnResult["short_summary"] /= <<>>
              /\ fnResult["detailed_notes"] /= <<>>

\* summarize in mode short has returned a short summary made by the
\* SimpleFallback and empty detailed notes
C20_Witness ==
    /\ fnCall.fn = "summarize"
    /\ fnCall.done
    /\ fnCall.mode = "short"
    /\ fnCall.pipeline = "SimpleFallback"
    /\ fnCall.text = <<"a", ".", "a", ".">>
    /\ fnResult["short_summary"] = <<"a", ".", " ", "a">>
    /\ fnResult["detailed_notes"] = <<>>

\* C21: for every mode, summarize on a text that is empty after trimming
\* returns both fields as the empty string and has not invoked the pipeline
C21_EmptyTextSkipsModel ==
    (fnCall.fn = "summarize" /\ fnCall.done /\ Trimmed(fnCall.text) = <<>>) =>
        /\ DOMAIN fnResult = {"short_summary", "detailed_notes"}
        /\ fnResult["short_summary"] = <<>>
        /\ fnResult["detailed_notes"] = <<>>
        /\ fnCall.invocations = 0

\* summarize in mode detailed has returned for a text of white space only,
\* in a process whose pipeline is the transformers model
C21_Witness ==
    /\ fnCall.fn = "summarize"
    /\ fnCall.done
    /\ fnCall.mode = "detailed"
    /\ fnCall.pipeline = "transformers"
    /\ fnCall.text = <<" ", "\n">>
    /\ fnCall.invocations = 0
    /\ fnResult["short_summary"] = <<>>
    /\ fnResult["detailed_notes"] = <<>>

\* C22: the pipeline is constructed at most once in a process, also when
\* several threads make their first call concurrently, and every call that
\* has returned holds the cached handle
C22_ConstructedOnce ==
    /\ constructions <= 1
    /\ \A t \in Callers :
          (callers[t].pc = "idle" /\ callers[t].calls > 0) =>
              callers[t].handle = pipeline_cache

\* what extract_text returns to create() for the PDF files within the size
\* limit that the PDF reader cannot parse
CorruptPdfExtractions ==
    {extract_text(f) : f \in {g \in UploadedFiles :
                                /\ g.suffix = ".pdf"
                                /\ ~g.parses
                                /\ g.size <= MAX_DOCUMENT_SIZE_MB * BytesPerMB}}

\* C23: a parse failure of the PDF reader leaves extract_text as an
\* ExtractionError, and create() answers it with status 400 and a reason
\* instead of failing with an unhandled exception
C23_CorruptPdfIsExtractionError ==
    [][ \A extracted \in CorruptPdfExtractions :
          UploadExtracted(TRUE, extracted) =>
              /\ extracted.raised = "ExtractionError"
              /\ returned' = Response("create", 0, "400") ]_vars

\* the size limit in bytes
LimitBytes == MAX_DOCUMENT_SIZE_MB * 1024 * 1024

\* C24: extract_text raises ExtractionError for a file that is too large
\* whenever the size in bytes is over MAX_DOCUMENT_SIZE_MB megabytes,
\* whatever the filename, and calls no reader then; a file of exactly the
\* limit is not rejected for its size
C24_TooLargeRejectedFirst ==
    (fnCall.fn = "extract_text(file_obj)" /\ fnCall.done) =>
        /\ fnCall.file_obj.size > LimitBytes =>
              /\ fnResult.raised = "ExtractionError"
              /\ fnResult.message = "File too large"
              /\ fnResult.reader = "none"
        /\ fnCall.file_obj.size <= LimitBytes => fnResult.message /= "File too large"

\* extract_text has rejected 'a.txt' of one byte over the limit without
\* calling a reader
C24_Witness ==
    /\ fnCall.fn = "extract_text(file_obj)"
    /\ fnCall.done
    /\ fnCall.file_obj.name = <<"a", ".", "t", "x", "t">>
    /\ fnCall.file_obj.size = LimitBytes + 1
    /\ fnResult.raised = "ExtractionError"
    /\ fnResult.message = "File too large"
    /\ fnResult.reader = "none"

\* the upper-case and the lower-case form of the letters of the extensions
LetterCases ==
    {{"p", "P"}, {"d", "D"}, {"f", "F"}, {"o", "O"}, {"c", "C"}, {"x", "X"}, {"t", "T"}}

\* the name ends with the suffix, letters compared without their case
EndsWithIgnoringCase(name, suffix) ==
    /\ Len(name) >= Len(suffix)
    /\ \A i \in 1..Len(suffix) :
          LET c == name[Len(name) - Len(suffix) + i]
          IN  c = suffix[i] \/ \E pair \in LetterCases : c \in pair /\ suffix[i] \in pair

\* C25: for a file within the size limit, a name ending in .pdf, .docx or
\* .txt in any letter case goes to the reader of that format, and every
\* other name raises ExtractionError for an unsupported type without a
\* reader being called
C25_DispatchIgnoresCase ==
    (/\ fnCall.fn = "extract_text(file_obj)"
     /\ fnCall.done
     /\ fnCall.file_obj.size <= LimitBytes) =>
        LET name == fnCall.file_obj.name
            pdf == EndsWithIgnoringCase(name, <<".", "p", "d", "f">>)
            docx == EndsWithIgnoringCase(name, <<".", "d", "o", "c", "x">>)
            txt == EndsWithIgnoringCase(name, <<".", "t", "x", "t">>)
        IN  /\ pdf => fnResult.reader = "_read_pdf"
            /\ docx => fnResult.reader = "_read_docx"
            /\ txt => fnResult.reader = "_read_txt"
            /\ ~(pdf \/ docx \/ txt) =>
                  /\ fnResult.raised = "ExtractionError"
                  /\ fnResult.message = "Unsupported file type"
                  /\ fnResult.reader = "none"

\* extract_text has sent 'a.PdF' to the PDF reader and returned its text
C25_Witness ==
    /\ fnCall.fn = "extract_text(file_obj)"
    /\ fnCall.done
    /\ fnCall.file_obj.name = <<"a", ".", "P", "d", "F">>
    /\ fnCall.file_obj.size = LimitBytes
    /\ fnCall.file_obj.parses
    /\ fnCall.file_obj.text = <<" ", "a", ".", " ">>
    /\ fnResult.raised = "none"
    /\ fnResult.reader = "_read_pdf"
    /\ fnResult.text = <<"a", ".">>

\* the first two '.'-separated segments of a text joined with '. ': the
\* text itself when it has no '.', and otherwise what precedes the first '.',
\* then '. ', then what lies between the first '.' and the second one or
\* the end
FirstTwoSegments(text) ==
    LET dots == {i \in 1..Len(text) : text[i] = "."}
        first == CHOOSE i \in dots : \A j \in dots : i <= j
        later == dots \ {first}
        second == IF later = {} THEN Len(text) + 1
                  ELSE CHOOSE i \in later : \A j \in later : i <= j
    IN  IF dots = {} THEN text
        ELSE SubSeq(text, 1, first - 1) \o <<".", " ">> \o SubSeq(text, first + 1, second - 1)

\* C26: the SimpleFallback returns the first two '.'-separated segments of
\* the text it is called with, joined with '. ' and cut to max_length
\* characters; the result depends on the text and max_length only
C26_FallbackIsFirstTwoSegments ==
    (fnCall.fn = "SimpleFallback" /\ fnCall.done) =>
        LET full == FirstTwoSegments(Trimmed(fnCall.text))
        IN  /\ Len(fnResult) = IF Len(full) > fnCall.max_length THEN fnCall.max_length
                               ELSE Len(full)
            /\ \A i \in 1..Len(fnResult) : fnResult[i] = full[i]

\* the SimpleFallback has cut 'a. a', made of the first two of the three
\* segments of 'a.a.', to its first three characters
C26_Witness ==
    /\ fnCall.fn = "SimpleFallback"
    /\ fnCall.done
    /\ fnCall.text = <<"a", ".", "a", ".">>
    /\ fnCall.max_length = 3
    /\ fnResult = <<"a", ".", " ">>

\* the number of '.'-separated segments of a text that hold a character
\* other than white space: a segment lies between two neighbouring ends,
\* which are the positions of the '.', 0 and Len(text) + 1
NumSegments(text) ==
    LET ends == {i \in 1..Len(text) : text[i] = "."} \cup {0, Len(text) + 1}
        inked(from) ==
            \E i \in (from + 1)..Len(text) :
                /\ text[i] \notin Whitespace
                /\ \A e \in ends : ~(from < e /\ e <= i)
    IN  Cardinality({e \in ends : inked(e)})

\* the number of lines of a text: none for the empty text, else one more
\* than its newlines
NumLines(text) ==
    IF text = <<>> THEN 0
    ELSE 1 + Cardinality({i \in 1..Len(text) : text[i] = "\n"})

\* C27: the detailed notes have as many lines as the detailed output has
\* non-empty trimmed '.'-separated segments, also when it has none, and
\* every line starts with '- '
C27_OneLinePerSegment ==
    (fnCall.fn = "bullets" /\ fnCall.done) =>
        /\ NumLines(fnResult) = NumSegments(fnCall.detailed_output)
        /\ \A i \in 1..Len(fnResult) :
              (i = 1 \/ fnResult[i - 1] = "\n") =>
                  /\ i + 1 <= Len(fnResult)
                  /\ fnResult[i] = "-"
                  /\ fnResult[i + 1] = " "

\* C28: in every reachable state, whatever the interleaving of create(),
\* retry_summary() and tasks of first, repeated or late deliveries, a Summary
\* row whose status is pending or processing has an empty short_summary and
\* empty detailed_notes
C28_UnfinishedHasNoText ==
    \A s \in summaries :
        s.status \in {"pending", "processing"} =>
            s.short_summary = "" /\ s.detailed_notes = ""

\* a task has claimed the Summary that a retry_summary() call had reset
\* from failed: the row is processing and the failure text is gone
C28_Witness ==
    /\ retry_calls > 0
    /\ \E s \in summaries :
          /\ s.status = "processing"
          /\ s.short_summary = ""
          /\ s.detailed_notes = ""
    /\ \E task \in BagToSet(tasks) : task.pc = "generate"

\* C29 as stated: whenever create() or retry_summary() adds a message to the
\* broker, the Summary of that Document exists and its persisted status is
\* pending at that moment
C29_PendingWhenEnqueued ==
    [][ \A d \in DocIds :
          queue'[d] > queue[d] =>
              /\ SummaryNow(d) /= NoSummary
              /\ SummaryNow(d).status = "pending" ]_vars

\* a step after which one more retry_summary() call for pk stands between
\* its save and its delay
RetryReachesEnqueue(pk) ==
    \E call \in BagToSet(retries') :
        /\ call.pk = pk
        /\ call.pc = "enqueue"
        /\ CopiesIn(call, retries') > CopiesIn(call, retries)

\* C29 amended: a create() or retry_summary() call reaches its delay only by
\* the statement that persists status pending; a message is added to the
\* broker only by a call that stands at its delay, one message at a time and
\* when the Summary exists; on the create() path the Summary is pending at
\* that moment. (After a retry the Summary may already be processing,
\* complete or failed again at that moment, because a task of an earlier
\* delivery has claimed it.)
C29_PendingSavedBeforeEnqueue ==
    [][ \A d \in DocIds :
          /\ (uploadPc[d] /= "enqueue" /\ uploadPc'[d] = "enqueue") =>
                (SummaryNow(d) = NoSummary /\ SummaryNext(d).status = "pending")
          /\ RetryReachesEnqueue(d) =>
                (SummaryNow(d) /= NoSummary /\ SummaryNext(d).status = "pending")
          /\ queue'[d] > queue[d] =>
                /\ UploadEnqueues(d) \/ RetryEnqueues(d)
                /\ SummaryNow(d) /= NoSummary
                /\ queue'[d] = queue[d] + 1
          /\ UploadEnqueues(d) => SummaryNow(d).status = "pending" ]_vars

\* retry_summary() has answered 200: its message is in the broker, no task
\* has taken it yet, and the Summary it reset is pending with empty texts
C29_Witness ==
    /\ returned = Response("retry_summary", 1, "200")
    /\ queue[1] = 1
    /\ tasks = EmptyBag
    /\ retries = EmptyBag
    /\ retry_calls = 1
    /\ SummaryNow(1) /= NoSummary
    /\ SummaryNow(1).status = "pending"
    /\ SummaryNow(1).detailed_notes = ""

====
